---- MODULE Spec2Model ----
(***************************************************************************)
(* Session bootstrap, token refresh and route guarding of the doctor app   *)
(* frontend: the axios instance with its two interceptors, the Redux auth  *)
(* slice, the ProtectedRoute component in its localStorage/useState form  *)
(* ("state") and its Redux form ("redux"), the LoginPage, the forms of     *)
(* handleLogout, and the browser's session history.                        *)
(***************************************************************************)
EXTENDS Integers, Sequences, FiniteSets, TLC

\* ------------------------------------------------------------------ bounds
MaxReqs == 2        \* requests sent through the axios instance in one behaviour
MaxRuns == 2        \* executions of the guard's effect body in one behaviour
MaxLogouts == 1     \* clicks on Logout in one behaviour
MaxThunks == 4      \* async thunks of the appointment slice in one behaviour

\* --------------------------------------------------------------- constants
None == "none"                  \* null / absent (localStorage.getItem, URLSearchParams.get)
NoStatus == 0 - 1               \* no response received yet
Unauthorized == 401
Statuses == {200, Unauthorized, 500, 0}  \* 0: network error, error.response undefined
UrlTokens == {"T"}
UrlRoles == {"R"}
StoredTokens == {"S"}
StoredRoles == {"R0"}
NewTokens == {"N1", "N2"}       \* access tokens POST /auth/refresh may return
LoginPath == "/login"
LandingPath == "/dashboard"
OtherPath == "/doctor"
Variants == {"state", "redux"}

VARIABLES
    variant,     \* which ProtectedRoute is built into the app
    store,       \* localStorage: access_token, refresh_token, role
    auth,        \* Redux auth slice: isAuthenticated, loading
    guard,       \* the ProtectedRoute instance
    routerLoc,   \* react-router's location object
    browserUrl,  \* window.location (what the address bar shows)
    navPending,  \* window.location.href = "/login" assigned, page not yet unloaded
    loginPc,     \* LoginPage: "none" | "pending" (mounted, effects not run) | "shown"
    reqs,        \* requests sent through axiosInstance, in order of creation
    runs,        \* executions of the guard's effect body (bootstrap runs)
    page,        \* how the current document was loaded
    hist,        \* session history: the entry before the current one
    dash,        \* Dashboard: the mount whose hasFetchedRef is set, its requests
    appointment, \* Redux appointment slice
    thunks,      \* async thunks of the appointment slice, in order of dispatch
    apptMounted  \* AppointmentPage is mounted

vars == <<variant, store, auth, guard, routerLoc, browserUrl, navPending,
          loginPc, reqs, runs, page, hist, dash, appointment, thunks,
          apptMounted>>

sessionVars == <<variant, store, auth, guard, routerLoc, browserUrl, navPending,
                 loginPc, reqs, runs, page, hist, dash>>
sliceVars == <<appointment, thunks, apptMounted>>

Protected == {LandingPath, OtherPath}

\* ------------------------------------------------------------ localStorage
SetItem(st, k, v) == [st EXCEPT ![k] = v]
RemoveItem(st, k) == [st EXCEPT ![k] = None]
ClearStorageKeepRole(st) == [st EXCEPT !.access_token = None]
ClearStorage(st) == [k \in DOMAIN st |-> None]

EmptyStore == [access_token |-> None, refresh_token |-> None, role |-> None]

\* -------------------------------------------------------------- authSlice
InitialState == [isAuthenticated |-> FALSE, loading |-> FALSE]
LoginSuccess(a) == [isAuthenticated |-> TRUE, loading |-> FALSE]
LogoutState(a) == [isAuthenticated |-> FALSE, loading |-> FALSE]
SetLoading(a, b) == [a EXCEPT !.loading = b]
CheckAuthState(a, st) ==
    [isAuthenticated |-> st.access_token # None, loading |-> FALSE]

\* ---------------------------------------------------------- axiosInstance
RequestInterceptorOff(hdr, st) == hdr
RequestInterceptor(hdr, st) ==
    IF st.access_token # None THEN st.access_token ELSE hdr

ShouldRefreshAnyStatus(status, retry) == ~retry
ShouldRefresh(status, retry) == status = Unauthorized /\ ~retry

MarkRetryForgotten(r) == r
MarkRetry(r) == [r EXCEPT !.retry = TRUE]

SaveNewTokenSkipped(st, tok) == st
SaveNewToken(st, tok) == SetItem(st, "access_token", tok)

Req(owner, hdr) ==
    [owner |-> owner, pc |-> "sent", retry |-> FALSE, header |-> hdr,
     sends |-> 1, answered |-> 0, refreshes |-> 0, first |-> NoStatus, last |-> NoStatus,
     newTok |-> None, retryHeader |-> None, err |-> None,
     via |-> "api", handler |-> None]

\* ------------------------------------------------------------- the world
\* Handlers are sequential code; they are written as functions of a record
\* holding every mutable variable, and an action commits the final record.
World ==
    [store |-> store, auth |-> auth, guard |-> guard, loc |-> routerLoc,
     url |-> browserUrl, nav |-> navPending, login |-> loginPc,
     reqs |-> reqs, runs |-> runs, page |-> page, hist |-> hist,
     dash |-> dash]

Commit(w) ==
    /\ store' = w.store
    /\ auth' = w.auth
    /\ guard' = w.guard
    /\ routerLoc' = w.loc
    /\ browserUrl' = w.url
    /\ navPending' = w.nav
    /\ loginPc' = w.login
    /\ reqs' = w.reqs
    /\ runs' = w.runs
    /\ page' = w.page
    /\ hist' = w.hist
    /\ dash' = w.dash
    /\ UNCHANGED variant
    /\ UNCHANGED sliceVars

Url(p, t, r) == [path |-> p, token |-> t, role |-> r]

\* axiosInstance(config): the request interceptor, then the request is sent
ApiRequest(w, owner) ==
    [w EXCEPT !.reqs = Append(@, Req(owner, RequestInterceptor(None, w.store)))]

\* navigate("/login", { replace: true }) and <Navigate to="/login" replace />
NavigateLogin(w) ==
    [w EXCEPT !.runs = [k \in DOMAIN @ |->
                          IF @[k].state = "VALIDATING"
                          THEN [@[k] EXCEPT !.redirected = TRUE] ELSE @[k]],
              !.loc = Url(LoginPath, None, None),
              !.url = Url(LoginPath, None, None),
              !.guard.mounted = FALSE,
              !.guard.effectPending = FALSE,
              !.login = IF w.loc.path = LoginPath THEN @ ELSE "pending"]

\* navigate("/login"): a new history entry, the page left is the previous one
NavigateLoginPush(w) == [NavigateLogin(w) EXCEPT !.hist.back = w.url.path]

\* window.location.href = "/login": a navigation that adds a history entry
\* unless the document is already at that URL
AssignHref(w) ==
    [w EXCEPT !.nav = TRUE,
              !.hist.push = IF w.nav THEN @ ELSE w.url.path # LoginPath]

\* what the guard renders
GuardView(v, g, a) ==
    IF ~g.mounted THEN "none"
    ELSE IF v # "redux"
         THEN IF g.checkingAuth THEN "loading" ELSE "children"
         ELSE IF a.loading THEN "loading"
              ELSE IF ~a.isAuthenticated THEN "navigate" ELSE "children"

View == GuardView(variant, guard, auth)

\* After a store update React renders again; a rendered <Navigate> redirects.
Rerender(w) ==
    IF variant = "redux" /\ GuardView(variant, w.guard, w.auth) = "navigate"
    THEN NavigateLogin(w)
    ELSE w

\* ------------------------------------------------------- ProtectedRoute
\* if (tokenFromUrl) { setItem("access_token", ..); if (roleFromUrl) setItem("role", ..) }
ExtractUrlTokenWhole(st, loc) ==
    IF loc.token # None \/ loc.role # None
    THEN SetItem(SetItem(st, "access_token", loc.token), "role", loc.role)
    ELSE st
ExtractUrlToken(st, loc) ==
    IF loc.token # None
    THEN LET s1 == SetItem(st, "access_token", loc.token)
         IN IF loc.role # None THEN SetItem(s1, "role", loc.role) ELSE s1
    ELSE st

\* window.history.replaceState({}, "", location.pathname), only if tokenFromUrl
StripUrlForgotten(url, loc) == url
StripUrl(url, loc) ==
    IF loc.token # None THEN Url(loc.path, None, None) ELSE url

\* const storedToken = localStorage.getItem("access_token"); if (!storedToken) ...
HasStoredTokenAlways(st) == TRUE
HasStoredTokenOrRole(st) == st.access_token # None \/ st.role # None
HasStoredToken(st) == st.access_token # None

Run(w, loc, st, rq, redir) ==
    [state |-> st, inst |-> w.guard.inst, render |-> w.guard.render, req |-> rq,
     extracted |-> loc.token # None, urlToken |-> loc.token,
     urlRole |-> loc.role, hadToken |-> w.store.access_token # None,
     redirected |-> redir, load |-> w.page]

\* The effect of the guard that reads localStorage only and validates with
\* the global axios and an explicit Authorization header
HeaderEffectBody(w, loc) ==
    IF ~HasStoredToken(w.store)
    THEN NavigateLogin(
           [w EXCEPT !.runs = Append(@, [Run(w, loc, "UNAUTHENTICATED", 0, TRUE)
                                           EXCEPT !.extracted = FALSE])])
    ELSE [w EXCEPT
            !.runs = Append(@, [Run(w, loc, "VALIDATING", Len(w.reqs) + 1, FALSE)
                                  EXCEPT !.extracted = FALSE]),
            !.reqs = Append(@, [Req(Len(w.runs) + 1, w.store.access_token)
                                  EXCEPT !.via = "raw"])]

\* The body of the guard's effect, run with the location of the render it
\* belongs to. redir: the <Navigate> rendered by the same commit has already
\* redirected (child effects run first).
EffectBody(w, loc, redir) ==
    IF variant = "header" THEN HeaderEffectBody(w, loc) ELSE
    LET a1 == IF variant = "redux" THEN SetLoading(w.auth, TRUE) ELSE w.auth
        st1 == ExtractUrlToken(w.store, loc)
        url1 == StripUrl(w.url, loc)
        w1 == [w EXCEPT !.auth = a1, !.store = st1, !.url = url1]
    IN IF ~HasStoredToken(st1)
       THEN IF variant = "state"
            THEN NavigateLogin(
                   [w1 EXCEPT !.runs = Append(@, Run(w, loc, "UNAUTHENTICATED", 0, TRUE))])
            ELSE [w1 EXCEPT
                   !.auth = SetLoading(LogoutState(a1), FALSE),
                   !.store = RemoveItem(st1, "access_token"),
                   !.runs = Append(@, Run(w, loc, "UNAUTHENTICATED", 0, redir))]
       ELSE ApiRequest(
              [w1 EXCEPT !.runs = Append(@, Run(w, loc, "VALIDATING",
                                               Len(w.reqs) + 1, redir))],
              Len(w.runs) + 1)

\* .then(...) of API.get("/auth/me")
OnValidated(w, k) ==
    LET w1 == IF variant = "header"
              THEN [w EXCEPT !.guard.checkingAuth = FALSE]
              ELSE IF variant = "state"
              THEN IF w.guard.mounted /\ w.guard.inst = w.runs[k].inst
                   THEN [w EXCEPT !.guard.checkingAuth = FALSE]
                   ELSE w
              ELSE [w EXCEPT !.auth = SetLoading(LoginSuccess(@), FALSE)]
    IN [w1 EXCEPT !.runs[k].state = "AUTHENTICATED"]

\* .catch(...) of API.get("/auth/me")
OnInvalid(w, k) ==
    LET w1 == IF variant = "header" THEN w
              ELSE IF variant = "state"
              THEN [w EXCEPT !.store = RemoveItem(RemoveItem(@, "access_token"), "role")]
              ELSE [w EXCEPT !.auth = SetLoading(LogoutState(@), FALSE),
                             !.store = RemoveItem(@, "access_token")]
    IN NavigateLogin([w1 EXCEPT !.runs[k].state = "UNAUTHENTICATED",
                                !.runs[k].redirected = TRUE])

\* the caller's continuation; owner 0 is a page's own data request
OnFulfilled(w, owner) == IF owner = 0 THEN w ELSE OnValidated(w, owner)
OnRejected(w, owner) == IF owner = 0 THEN w ELSE OnInvalid(w, owner)

\* ------------------------------------------------------------ handleLogout
\* The forms of handleLogout: "layout" is Layout with Redux, "layoutPlain"
\* Layout with localStorage only, "dashFinally" Dashboard clearing in its
\* finally block, "dashTry" Dashboard clearing inside its try block.
LogoutHandlers(v) ==
    IF v = "redux" THEN {"layout"} ELSE {"layoutPlain", "dashFinally", "dashTry"}

\* Layout posts through the instance, Dashboard through the global axios
ViaInstance(h) == h \in {"layout", "layoutPlain"}

\* axios.post(url, {}, { headers: { Authorization: `Bearer ${token}` } })
RawRequest(w, h) ==
    [w EXCEPT !.reqs = Append(@, [Req(0, w.store.access_token) EXCEPT
                                     !.via = "raw", !.handler = h])]

\* the statements of handleLogout that clear the session and leave the page
ClearSession(w, h) ==
    IF h = "layout"
    THEN NavigateLogin([w EXCEPT
           !.store = RemoveItem(RemoveItem(@, "access_token"), "access_token"),
           !.auth = LogoutState(@)])
    ELSE LET w1 == [w EXCEPT
                      !.store = RemoveItem(RemoveItem(@, "access_token"), "role")]
         IN IF h = "layoutPlain" THEN NavigateLoginPush(w1) ELSE NavigateLogin(w1)

\* handleLogout after the await: ok is whether POST /auth/logout was fulfilled
AfterLogout(w, h, ok) ==
    IF h = None THEN w
    ELSE IF h = "dashTry" /\ ~ok THEN w
    ELSE ClearSession(w, h)

\* --------------------------------------------------------------- Dashboard
\* no Dashboard has run its effect yet
DashboardUnmounted == [inst |-> 0, render |-> 0, reqs |-> {}]

\* the rendered Dashboard has not run fetchUserInfo: hasFetchedRef.current is
\* false in a Dashboard mounted by this render of the guard
DashboardPending(w) ==
    /\ GuardView(variant, w.guard, w.auth) = "children"
    /\ w.loc.path = LandingPath
    /\ <<w.dash.inst, w.dash.render>> # <<w.guard.inst, w.guard.render>>

\* fetchUserInfo up to its await: the token of useLocation().search is stored
\* and the address bar cleaned, then the stored token is checked
FetchUserInfo(w) ==
    LET st1 == ExtractUrlToken(w.store, w.loc)
        url1 == StripUrl(w.url, w.loc)
        w1 == [w EXCEPT !.store = st1, !.url = url1,
                        !.dash.inst = w.guard.inst,
                        !.dash.render = w.guard.render]
    IN IF ~HasStoredToken(st1)
       THEN NavigateLoginPush(w1)
       ELSE [ApiRequest(w1, 0) EXCEPT !.dash.reqs = @ \cup {Len(w.reqs) + 1}]

\* fetchUserInfo after await API.get("/auth/me"): setUser, or the catch block
AfterFetchUserInfo(w, i, ok) ==
    IF i \notin w.dash.reqs \/ ok THEN w
    ELSE NavigateLoginPush(
           [w EXCEPT !.store = RemoveItem(RemoveItem(@, "access_token"), "role")])

\* ------------------------------------------------------------ page loads
MountGuard(w, loc) ==
    [w EXCEPT !.guard = [mounted |-> TRUE, checkingAuth |-> TRUE,
                         effectPending |-> TRUE, fresh |-> TRUE,
                         inst |-> w.guard.inst + 1,
                         render |-> w.guard.render + 1, loc |-> loc],
              !.login = "none"]

\* A document load: the old document's scripts, requests and stores are gone.
PageLoad(w, url, kind) ==
    LET w1 == [w EXCEPT
                 !.reqs = [i \in DOMAIN @ |->
                             IF @[i].pc \in {"sent", "refreshing"}
                             THEN [@[i] EXCEPT !.pc = "aborted"] ELSE @[i]],
                 !.runs = [k \in DOMAIN @ |->
                             IF @[k].state = "VALIDATING"
                             THEN [@[k] EXCEPT !.state = "ABORTED"] ELSE @[k]],
                 !.auth = InitialState, !.loc = url, !.url = url,
                 !.nav = FALSE, !.page = kind]
    IN IF url.path = LoginPath
       THEN [w1 EXCEPT !.guard.mounted = FALSE, !.guard.effectPending = FALSE,
                       !.login = "pending"]
       ELSE MountGuard(w1, url)

Quiescent == ~guard.effectPending /\ loginPc # "pending"
Logouts == {i \in DOMAIN reqs : reqs[i].handler # None}
Room(n) == Len(runs) + n <= MaxRuns /\ Len(reqs) - Cardinality(Logouts) + n <= MaxReqs

\* ------------------------------------------------------- appointmentSlice
NoId == 0                       \* editingAppointmentId: null
Unset == ""                     \* an empty form field
DoctorIds == {"d1", "d2"}
Dates == {"t1"}
ServerIds == {1, 2}             \* ids of the appointments GET /appointments returns
NewIds == {3, 4}                \* ids POST /appointments gives

InitialFormState == [doctor_id |-> Unset, date |-> Unset, editingAppointmentId |-> NoId]

SliceInitialState ==
    [items |-> <<>>, loading |-> FALSE, error |-> None,
     form |-> InitialFormState, availableSlots |-> <<>>]

Appointment(id, d, t) == [id |-> id, doctor_id |-> d, date |-> t]

\* the lists GET /appointments may return
ServerLists ==
    {<<>>, <<Appointment(1, "d1", "t1")>>,
     <<Appointment(1, "d1", "t1"), Appointment(2, "d2", "t1")>>}

\* what GET /appointments/available-slots returns for a doctor and a date
SlotsFor(d, t) == <<d, t>>

ResetAppointmentForm(s) ==
    [s EXCEPT !.form = InitialFormState, !.availableSlots = <<>>]

SetAppointmentFormField(s, field, value) ==
    IF field \in DOMAIN s.form THEN [s EXCEPT !.form[field] = value] ELSE s

SetEditingAppointment(s, a) ==
    [s EXCEPT !.form = [editingAppointmentId |-> a.id, doctor_id |-> a.doctor_id,
                        date |-> a.date]]

\* .pending of fetchAll, create, update and delete
ThunkPending(s) == [s EXCEPT !.loading = TRUE, !.error = None]

\* .rejected of fetchAll, create, update and delete
ThunkRejectedDropsItems(s, e) ==
    [s EXCEPT !.loading = FALSE, !.error = e, !.items = <<>>]
ThunkRejected(s, e) == [s EXCEPT !.loading = FALSE, !.error = e]

FetchFulfilled(s, list) == [s EXCEPT !.loading = FALSE, !.items = list]

CreateFulfilled(s, a) == [s EXCEPT !.loading = FALSE, !.items = Append(@, a)]

\* state.items.findIndex((a) => a.id === id): 0 stands for -1
FindIndex(items, id) ==
    IF \E j \in DOMAIN items : items[j].id = id
    THEN CHOOSE j \in DOMAIN items :
           /\ items[j].id = id
           /\ \A h \in DOMAIN items : items[h].id = id => j <= h
    ELSE 0

UpdateFulfilled(s, id, data) ==
    LET index == FindIndex(s.items, id)
    IN [s EXCEPT !.loading = FALSE,
                 !.items = IF index # 0
                           THEN [@ EXCEPT ![index] =
                                   Appointment(@.id, data.doctor_id, data.date)]
                           ELSE @]

Keeps(a, id) == a.id # id
RECURSIVE Filter(_, _)
Filter(items, id) ==
    IF items = <<>> THEN <<>>
    ELSE IF Keeps(Head(items), id)
         THEN <<Head(items)>> \o Filter(Tail(items), id)
         ELSE Filter(Tail(items), id)

DeleteFulfilled(s, id) == [s EXCEPT !.loading = FALSE, !.items = Filter(@, id)]

SlotsFulfilled(s, slots) == [s EXCEPT !.availableSlots = slots]

\* a dispatched async thunk: its type, its argument, its promise's state
Thunk(type, id, d, t) ==
    [type |-> type, id |-> id, doctor_id |-> d, date |-> t, status |-> "pending"]

TracksLoading(type) == type \in {"fetchAll", "create", "update", "delete"}

\* dispatch(thunk): the pending reducer runs, the request leaves
Dispatch(s, type) == IF TracksLoading(type) THEN ThunkPending(s) ELSE s

\* AppointmentForm's effect on [doctor_id, date]: the thunks it dispatches
SlotsEffect(form) ==
    IF form.doctor_id # Unset /\ form.date # Unset
    THEN <<Thunk("fetchSlots", NoId, form.doctor_id, form.date)>>
    ELSE <<>>

\* ---------------------------------------------------------------- actions
Init ==
    /\ variant \in Variants
    /\ store \in [access_token : {None} \cup StoredTokens,
                  refresh_token : {None},
                  role : {None} \cup StoredRoles]
    /\ auth = InitialState
    /\ \E t \in {None} \cup UrlTokens, r \in {None} \cup UrlRoles :
         /\ routerLoc = Url(LandingPath, t, r)
         /\ browserUrl = Url(LandingPath, t, r)
         /\ guard = [mounted |-> TRUE, checkingAuth |-> TRUE,
                     effectPending |-> TRUE, fresh |-> TRUE, inst |-> 1,
                     render |-> 1,
                     loc |-> Url(LandingPath, t, r)]
    /\ navPending = FALSE
    /\ loginPc = "none"
    /\ reqs = <<>>
    /\ runs = <<>>
    /\ page = "open"
    /\ hist = [back |-> None, push |-> FALSE]
    /\ dash = DashboardUnmounted
    /\ appointment = SliceInitialState
    /\ thunks = <<>>
    /\ apptMounted = FALSE

\* The passive effects of a commit of the guard: a rendered <Navigate>
\* first, then the guard's own effect; twice on mount under React.StrictMode.
GuardEffect ==
    \E twice \in BOOLEAN :
      /\ guard.effectPending
      /\ twice => guard.fresh
      /\ Room(IF twice THEN 2 ELSE 1)
      /\ LET redir == variant = "redux" /\ View = "navigate"
             w0 == [World EXCEPT !.guard.effectPending = FALSE,
                                 !.guard.fresh = FALSE]
             w1 == IF redir THEN NavigateLogin(w0) ELSE w0
             w2 == EffectBody(w1, guard.loc, redir)
             w3 == IF twice THEN EffectBody(w2, guard.loc, redir) ELSE w2
         IN Commit(Rerender(w3))

\* A response to request i arrives: the response interceptor, then the
\* caller's continuation.
Respond ==
    \E i \in DOMAIN reqs, status \in Statuses :
      /\ Quiescent
      /\ reqs[i].pc = "sent"
      /\ LET r == [reqs[i] EXCEPT !.last = status, !.answered = @ + 1,
                                  !.first = IF reqs[i].sends = 1 THEN status ELSE @]
         IN IF status = 200
            THEN Commit(Rerender(AfterFetchUserInfo(AfterLogout(OnFulfilled(
                   [World EXCEPT !.reqs[i] = [r EXCEPT !.pc = "resolved"]],
                   r.owner), r.handler, TRUE), i, TRUE)))
            ELSE IF r.via = "api" /\ ShouldRefresh(status, r.retry)
            THEN Commit([World EXCEPT !.reqs[i] =
                   [MarkRetry(r) EXCEPT !.pc = "refreshing",
                                        !.refreshes = @ + 1]])
            ELSE Commit(Rerender(AfterFetchUserInfo(AfterLogout(OnRejected(
                   [World EXCEPT !.reqs[i] = [r EXCEPT !.pc = "rejected",
                                                       !.err = "status"]],
                   r.owner), r.handler, FALSE), i, FALSE)))

\* POST /auth/refresh answered with a new access token: store it, set the
\* header, re-issue the original request through the instance.
RefreshOk ==
    \E i \in DOMAIN reqs, tok \in NewTokens :
      /\ Quiescent
      /\ reqs[i].pc = "refreshing"
      /\ LET st1 == SaveNewToken(store, tok)
             hdr == RequestInterceptor(tok, st1)
         IN Commit([World EXCEPT
                      !.store = st1,
                      !.reqs[i] = [@ EXCEPT !.pc = "sent", !.header = hdr,
                                            !.sends = @ + 1, !.newTok = tok,
                                            !.retryHeader = hdr]])

\* POST /auth/refresh fails: clear localStorage, window.location.href = "/login",
\* reject with the refresh error.
RefreshFail ==
    \E i \in DOMAIN reqs :
      /\ Quiescent
      /\ reqs[i].pc = "refreshing"
      /\ Commit(Rerender(AfterFetchUserInfo(AfterLogout(OnRejected(
           [AssignHref(World) EXCEPT
                         !.store = ClearStorage(@),
                         !.reqs[i] = [@ EXCEPT !.pc = "rejected",
                                               !.err = "refresh"]],
           reqs[i].owner), reqs[i].handler, FALSE), i, FALSE)))

\* the assigned window.location.href takes effect
HardNavigate ==
    /\ navPending
    /\ Commit([PageLoad(World, Url(LoginPath, None, None), "hardnav") EXCEPT
                 !.hist = [back |-> IF hist.push THEN browserUrl.path ELSE hist.back,
                           push |-> FALSE]])

\* if (!loading && isAuthenticated) navigate("/dashboard"): with the values of
\* the render the effect belongs to, and again after checkAuthState changed them
LoginRedirects(a, st) ==
    LET a1 == CheckAuthState(a, st)
    IN \/ ~a.loading /\ a.isAuthenticated
       \/ a1 # a /\ ~a1.loading /\ a1.isAuthenticated

\* const token = localStorage.getItem("access_token"); if (token) navigate("/dashboard")
TokenRedirects(st) == st.access_token # None

\* LoginPage's effects
LoginEffect ==
    /\ loginPc = "pending"
    /\ LET w0 == [World EXCEPT !.login = "shown"]
           a1 == CheckAuthState(auth, store)
           go == LoginRedirects(auth, store)
       IN IF variant = "redux"
          THEN IF go
               THEN /\ Room(1)
                    /\ Commit(MountGuard(
                         [w0 EXCEPT !.auth = a1,
                                    !.hist.back = LoginPath,
                                    !.loc = Url(LandingPath, None, None),
                                    !.url = Url(LandingPath, None, None)],
                         Url(LandingPath, None, None)))
               ELSE Commit([w0 EXCEPT !.auth = a1])
          ELSE IF variant = "header" /\ TokenRedirects(store)
          THEN /\ Room(1)
               /\ Commit(MountGuard(
                    [w0 EXCEPT !.hist.back = LoginPath,
                               !.loc = Url(LandingPath, None, None),
                               !.url = Url(LandingPath, None, None)],
                    Url(LandingPath, None, None)))
          ELSE Commit(w0)

\* the user follows "Login with Google"; the backend redirects back
OAuthLogin ==
    \E t \in UrlTokens, r \in {None} \cup UrlRoles :
      /\ loginPc = "shown"
      /\ ~navPending
      /\ Room(1)
      /\ Commit([PageLoad(World, Url(LandingPath, t, r), "oauth") EXCEPT
                   !.hist.back = IF variant = "redux" THEN LoginPath ELSE @])

\* the user reloads the page
Reload ==
    /\ Quiescent
    /\ ~navPending
    /\ browserUrl.path # LoginPath
    /\ Room(1)
    /\ Commit(PageLoad(World, browserUrl, "reload"))

\* the user follows a link of the layout to another protected page
RouteChange ==
    \E p \in Protected :
      /\ Quiescent
      /\ View = "children"
      /\ p # routerLoc.path
      /\ Room(1)
      /\ Commit([World EXCEPT !.loc = Url(p, None, None),
                              !.url = Url(p, None, None),
                              !.hist.back = routerLoc.path,
                              !.guard.loc = Url(p, None, None),
                              !.guard.render = @ + 1,
                              !.guard.effectPending = TRUE])

\* a rendered page requests its data through the instance
PageApiCall ==
    /\ Quiescent
    /\ View = "children"
    /\ Room(1)
    /\ Commit(ApiRequest(World, 0))

\* the user clicks Logout: POST /auth/logout is sent and awaited
Logout ==
    \E h \in LogoutHandlers(variant) :
      /\ Quiescent
      /\ View = "children"
      /\ Cardinality(Logouts) + 1 <= MaxLogouts
      /\ IF ViaInstance(h)
         THEN Commit([ApiRequest(World, 0) EXCEPT !.reqs[Len(reqs) + 1].handler = h])
         ELSE /\ routerLoc.path = LandingPath
              /\ store.access_token # None
              /\ Commit(RawRequest(World, h))

\* the user opens /login in the address bar
OpenLogin ==
    /\ Quiescent
    /\ ~navPending
    /\ browserUrl.path # LoginPath
    /\ Commit([PageLoad(World, Url(LoginPath, None, None), "open") EXCEPT
                 !.hist.back = browserUrl.path])

Next ==
    \/ GuardEffect
    \/ Respond
    \/ RefreshOk
    \/ RefreshFail
    \/ HardNavigate
    \/ LoginEffect
    \/ OAuthLogin
    \/ Reload
    \/ RouteChange
    \/ PageApiCall

Spec == Init /\ [][Next]_vars

\* Every request is eventually answered (axios settles each promise) and React
\* eventually flushes the effects it has scheduled.
SpecLive ==
    /\ Spec
    /\ WF_vars(GuardEffect)
    /\ WF_vars(LoginEffect)
    /\ WF_vars(Respond)
    /\ WF_vars(RefreshOk \/ RefreshFail)

\* the application with a user who also logs out and opens /login directly
NextSession ==
    \/ Next
    \/ Logout
    \/ OpenLogin

SpecSession == Init /\ [][NextSession]_vars

\* The application built with the guard that only reads localStorage and the
\* LoginPage that checks for a stored token.
InitHeader ==
    /\ variant = "header"
    /\ store \in [access_token : {None} \cup StoredTokens,
                  refresh_token : {None},
                  role : {None} \cup StoredRoles]
    /\ auth = InitialState
    /\ \E t \in {None} \cup UrlTokens, r \in {None} \cup UrlRoles :
         /\ routerLoc = Url(LandingPath, t, r)
         /\ browserUrl = Url(LandingPath, t, r)
         /\ guard = [mounted |-> TRUE, checkingAuth |-> TRUE,
                     effectPending |-> TRUE, fresh |-> TRUE, inst |-> 1,
                     render |-> 1,
                     loc |-> Url(LandingPath, t, r)]
    /\ navPending = FALSE
    /\ loginPc = "none"
    /\ reqs = <<>>
    /\ runs = <<>>
    /\ page = "open"
    /\ hist = [back |-> None, push |-> FALSE]
    /\ dash = DashboardUnmounted
    /\ appointment = SliceInitialState
    /\ thunks = <<>>
    /\ apptMounted = FALSE

SpecHeader == InitHeader /\ [][Next]_vars

\* ------------------------------------------------- the appointment page
\* The appointment page of a signed-in user; the session does not change.
InitSlice ==
    /\ variant = "redux"
    /\ store = [access_token |-> "S", refresh_token |-> None, role |-> None]
    /\ auth = LoginSuccess(InitialState)
    /\ routerLoc = Url(OtherPath, None, None)
    /\ browserUrl = Url(OtherPath, None, None)
    /\ guard = [mounted |-> TRUE, checkingAuth |-> FALSE,
                effectPending |-> FALSE, fresh |-> FALSE, inst |-> 1,
                render |-> 1, loc |-> Url(OtherPath, None, None)]
    /\ navPending = FALSE
    /\ loginPc = "none"
    /\ reqs = <<>>
    /\ runs = <<>>
    /\ page = "open"
    /\ hist = [back |-> None, push |-> FALSE]
    /\ dash = DashboardUnmounted
    /\ appointment = SliceInitialState
    /\ thunks = <<>>
    /\ apptMounted = FALSE

\* AppointmentPage mounts: fetchAppointmentAction once (hasFetched), and the
\* form's effect with the form fields the store holds, twice under
\* React.StrictMode
MountPage ==
    \E twice \in BOOLEAN :
    /\ ~apptMounted
    /\ twice => SlotsEffect(appointment.form) # <<>>
    /\ LET new == <<Thunk("fetchAll", NoId, Unset, Unset)>>
                    \o SlotsEffect(appointment.form)
                    \o (IF twice THEN SlotsEffect(appointment.form) ELSE <<>>)
       IN /\ Len(thunks) + Len(new) <= MaxThunks
          /\ apptMounted' = TRUE
          /\ appointment' = Dispatch(appointment, "fetchAll")
          /\ thunks' = thunks \o new
    /\ UNCHANGED sessionVars

\* the user leaves the page by a link; the store and the requests stay
LeavePage ==
    /\ apptMounted
    /\ apptMounted' = FALSE
    /\ UNCHANGED <<appointment, thunks>>
    /\ UNCHANGED sessionVars

\* handleInputChange(field) with a new value, then the effect on the fields
ChangeField ==
    \E field \in {"doctor_id", "date"} :
      \E value \in (IF field = "doctor_id" THEN DoctorIds ELSE Dates) :
        /\ apptMounted
        /\ appointment.form[field] # value
        /\ LET s1 == SetAppointmentFormField(appointment, field, value)
               new == SlotsEffect(s1.form)
           IN /\ Len(thunks) + Len(new) <= MaxThunks
              /\ appointment' = s1
              /\ thunks' = thunks \o new
        /\ UNCHANGED apptMounted
        /\ UNCHANGED sessionVars

\* handleEdit of a listed card (cards are rendered only when not loading)
EditAppointment ==
    \E j \in DOMAIN appointment.items :
      /\ apptMounted
      /\ ~appointment.loading
      /\ LET s1 == SetEditingAppointment(appointment, appointment.items[j])
             new == IF <<s1.form.doctor_id, s1.form.date>>
                         # <<appointment.form.doctor_id, appointment.form.date>>
                    THEN SlotsEffect(s1.form) ELSE <<>>
         IN /\ Len(thunks) + Len(new) <= MaxThunks
            /\ appointment' = s1
            /\ thunks' = thunks \o new
      /\ UNCHANGED apptMounted
      /\ UNCHANGED sessionVars

\* handleSubmit up to its await (the submit button is disabled while loading)
SubmitForm ==
    /\ apptMounted
    /\ ~appointment.loading
    /\ Len(thunks) + 1 <= MaxThunks
    /\ LET f == appointment.form
           type == IF f.editingAppointmentId # NoId THEN "update" ELSE "create"
       IN /\ appointment' = Dispatch(appointment, type)
          /\ thunks' = Append(thunks, Thunk(type, f.editingAppointmentId,
                                             f.doctor_id, f.date))
    /\ UNCHANGED apptMounted
    /\ UNCHANGED sessionVars

\* handleDelete of a listed card, confirmed
DeleteAppointment ==
    \E j \in DOMAIN appointment.items :
      /\ apptMounted
      /\ ~appointment.loading
      /\ Len(thunks) + 1 <= MaxThunks
      /\ appointment' = Dispatch(appointment, "delete")
      /\ thunks' = Append(thunks, Thunk("delete", appointment.items[j].id,
                                         Unset, Unset))
      /\ UNCHANGED apptMounted
      /\ UNCHANGED sessionVars

\* the fulfilled reducer of thunk c, then the caller's continuation
\* (handleSubmit resets the form after a successful save)
Fulfilled(s, c, list, id) ==
    IF c.type = "fetchAll" THEN FetchFulfilled(s, list)
    ELSE IF c.type = "create"
    THEN ResetAppointmentForm(
           CreateFulfilled(s, Appointment(id, c.doctor_id, c.date)))
    ELSE IF c.type = "update"
    THEN ResetAppointmentForm(UpdateFulfilled(s, c.id, c))
    ELSE IF c.type = "delete" THEN DeleteFulfilled(s, c.id)
    ELSE SlotsFulfilled(s, SlotsFor(c.doctor_id, c.date))

\* the rejected reducer of thunk c (none for fetchSlots)
Rejected(s, c) ==
    IF TracksLoading(c.type) THEN ThunkRejected(s, "error") ELSE s

\* the request of thunk n succeeds
SettleFulfilled ==
    \E n \in DOMAIN thunks, list \in ServerLists, id \in NewIds :
      /\ thunks[n].status = "pending"
      /\ thunks[n].type = "fetchAll" \/ list = <<>>
      /\ IF thunks[n].type = "create"
         THEN /\ \A j \in DOMAIN appointment.items : appointment.items[j].id # id
              /\ \A h \in NewIds :
                   (\A j \in DOMAIN appointment.items : appointment.items[j].id # h)
                     => id <= h
         ELSE id = 3
      /\ appointment' = Fulfilled(appointment, thunks[n], list, id)
      /\ thunks' = [thunks EXCEPT ![n].status = "fulfilled"]
      /\ UNCHANGED apptMounted
      /\ UNCHANGED sessionVars

\* the request of thunk n fails
SettleRejected ==
    \E n \in DOMAIN thunks :
      /\ thunks[n].status = "pending"
      /\ appointment' = Rejected(appointment, thunks[n])
      /\ thunks' = [thunks EXCEPT ![n].status = "rejected"]
      /\ UNCHANGED apptMounted
      /\ UNCHANGED sessionVars

NextSlice ==
    \/ MountPage
    \/ LeavePage
    \/ ChangeField
    \/ EditAppointment
    \/ SubmitForm
    \/ DeleteAppointment
    \/ SettleFulfilled
    \/ SettleRejected

SpecSlice == InitSlice /\ [][NextSlice]_vars

\* the effect of a mounted Dashboard (hasFetchedRef lets it run once per mount)
DashboardEffect ==
    /\ Quiescent
    /\ DashboardPending(World)
    /\ Len(reqs) - Cardinality(Logouts) + 1 <= MaxReqs
    /\ Commit(FetchUserInfo(World))

\* the application with the Dashboard's own bootstrap
NextDashboard ==
    \/ Next
    \/ DashboardEffect

SpecDashboard == Init /\ [][NextDashboard]_vars

\* ================================================================ claims
Requests == {i \in DOMAIN reqs : reqs[i].via = "api"}
Bootstraps == DOMAIN runs

\* C1: on behalf of one originating request the response interceptor makes
\* at most one POST /auth/refresh; a 401 answering the re-issued request
\* starts no second refresh and is rejected to the caller as that 401.
C1_AtMostOneRefresh ==
    \A i \in Requests :
      /\ reqs[i].refreshes <= 1
      /\ (reqs[i].answered = 2 /\ reqs[i].last = Unauthorized) =>
           /\ reqs[i].pc = "rejected"
           /\ reqs[i].err = "status"
           /\ reqs[i].refreshes = 1

\* witness of C1: a re-issued request was answered 401 and rejected
C1_Witness ==
    \E i \in Requests :
      /\ reqs[i].answered = 2
      /\ reqs[i].last = Unauthorized
      /\ reqs[i].pc = "rejected"

\* C2: a request whose first response is 401 has exactly one refresh made
\* for it; once that refresh has succeeded the request has been sent exactly
\* twice (re-issued once) and the re-issued request carries the access token
\* the refresh returned.
C2_RefreshThenRetryOnce ==
    \A i \in Requests :
      /\ reqs[i].first = Unauthorized => reqs[i].refreshes = 1
      /\ reqs[i].newTok # None =>
           /\ reqs[i].sends = 2
           /\ reqs[i].retryHeader = reqs[i].newTok

\* witness of C2: a request was refreshed with a stored token in place,
\* re-issued, and the re-issued request has been answered
C2_Witness ==
    \E i \in Requests :
      /\ reqs[i].first = Unauthorized
      /\ reqs[i].newTok # None
      /\ reqs[i].header = reqs[i].newTok
      /\ reqs[i].answered = 2

\* C10: while no response to a request of the instance has had status 401,
\* no POST /auth/refresh has been made.
C10_NoRefreshWithout401 ==
    (\A i \in Requests : reqs[i].first # Unauthorized /\ reqs[i].last # Unauthorized)
      => \A i \in Requests : reqs[i].refreshes = 0 /\ reqs[i].pc # "refreshing"

\* witness of C10: two requests answered, one of them with an error status
\* other than 401, and no 401 anywhere
C10_Witness ==
    /\ Len(reqs) = 2
    /\ \A i \in Requests : reqs[i].answered = 1 /\ reqs[i].last # Unauthorized
    /\ \E i \in Requests : reqs[i].last = 500 /\ reqs[i].pc = "rejected"

\* C3: in the step in which the refresh made for a request fails, localStorage
\* is left with access_token, refresh_token and role all absent, the
\* navigation to /login is under way, and the caller is rejected with the
\* refresh error; when the caller is a bootstrap run, that run ends
\* UNAUTHENTICATED and the router is at /login.
C3_RefreshFailureStep ==
    \A i \in Requests :
      (reqs[i].pc = "refreshing" /\ reqs'[i].pc = "rejected") =>
        /\ store' = EmptyStore
        /\ navPending'
        /\ reqs'[i].err = "refresh"
        /\ reqs[i].owner # 0 =>
             /\ runs'[reqs[i].owner].state = "UNAUTHENTICATED"
             /\ routerLoc'.path = LoginPath

\* C3 holds of every step: a failed refresh clears localStorage, starts the
\* navigation to /login and rejects the caller.
C3_RefreshFailureClears == [][C3_RefreshFailureStep]_vars

\* witness of C3: a bootstrap run whose refresh failed, after that step
C3_Witness ==
    \E i \in Requests :
      /\ reqs[i].err = "refresh"
      /\ reqs[i].owner # 0
      /\ runs[reqs[i].owner].state = "UNAUTHENTICATED"
      /\ runs[reqs[i].owner].hadToken
      /\ store = EmptyStore
      /\ navPending

\* C6: an execution of the guard's effect that finds no access token in
\* localStorage and none in the URL ends UNAUTHENTICATED with the router at
\* /login, and sends no request.
C6_NoTokenStep ==
    (Len(runs') > Len(runs) /\ store.access_token = None /\ guard.loc.token = None) =>
      /\ \A k \in (Len(runs) + 1)..Len(runs') :
           runs'[k].state = "UNAUTHENTICATED" /\ runs'[k].req = 0
      /\ reqs' = reqs
      /\ routerLoc'.path = LoginPath

\* C6 holds of every step: without any token the run ends UNAUTHENTICATED
\* at /login and no request is sent.
C6_NoTokenNoNetwork == [][C6_NoTokenStep]_vars

\* witness of C6: a run that started without any token has ended
C6_Witness ==
    \E k \in Bootstraps :
      /\ ~runs[k].hadToken
      /\ ~runs[k].extracted
      /\ runs[k].state = "UNAUTHENTICATED"
      /\ routerLoc.path = LoginPath
      /\ reqs = <<>>

\* The scenario of C9: so far no refresh has failed and no request has been
\* rejected.
NothingRejected == \A i \in Requests : reqs[i].pc # "rejected"

\* C9: (no refresh having failed, no request having been rejected and the
\* user not having logged out) in the
\* step in which the /auth/me re-issued after a successful refresh succeeds,
\* the run becomes AUTHENTICATED and localStorage holds an access token
\* returned by the refresh endpoint: the one returned for this request when
\* no other refresh has succeeded.
C9_RetrySucceedsStep ==
    \A i \in Requests :
      (/\ reqs[i].owner # 0
       /\ reqs[i].pc = "sent"
       /\ reqs[i].newTok # None
       /\ reqs'[i].pc = "resolved"
       /\ NothingRejected
       /\ Logouts = {}) =>
        /\ runs'[reqs[i].owner].state = "AUTHENTICATED"
        /\ store'.access_token \in {reqs[j].newTok : j \in Requests} \ {None}
        /\ (\A j \in Requests \ {i} : reqs[j].newTok = None) =>
             store'.access_token = reqs[i].newTok

\* C9 holds of every step: the re-issued /auth/me succeeding ends the run
\* AUTHENTICATED with the refreshed access token stored.
C9_RefreshedBootstrap == [][C9_RetrySucceedsStep]_vars

\* witness of C9: a run that began with the stored token, was refreshed and
\* ended AUTHENTICATED with the new token in localStorage
C9_Witness ==
    \E i \in Requests :
      /\ reqs[i].owner # 0
      /\ reqs[i].first = Unauthorized
      /\ reqs[i].newTok # None
      /\ reqs[i].pc = "resolved"
      /\ runs[reqs[i].owner].state = "AUTHENTICATED"
      /\ ~runs[reqs[i].owner].extracted
      /\ store.access_token = reqs[i].newTok

\* C4: in the step in which a bootstrap run that began with a stored access
\* token has its re-issued /auth/me answered 401 after a successful refresh,
\* localStorage is left with access_token, refresh_token and role all absent.
C4_ClaimStep ==
    \A i \in Requests :
      (/\ reqs[i].owner # 0
       /\ reqs[i].pc = "sent"
       /\ reqs[i].newTok # None
       /\ reqs'[i].pc = "rejected"
       /\ reqs'[i].last = Unauthorized
       /\ runs[reqs[i].owner].hadToken) =>
        store' = EmptyStore

\* C4 of every step: a run rejected with 401 after a successful refresh
\* leaves all three fields of localStorage absent.
C4_ClearedAfterSecond401 == [][C4_ClaimStep]_vars

\* C5 as stated: when a run whose URL carried access_token=T and role=R has
\* ended, localStorage holds access_token=T and role=R and the visible URL
\* holds neither parameter.
C5_ClaimStep ==
    \A k \in Bootstraps :
      (/\ runs[k].state = "VALIDATING"
       /\ runs'[k].state \in {"AUTHENTICATED", "UNAUTHENTICATED"}
       /\ runs[k].urlToken # None
       /\ runs[k].urlRole # None) =>
        /\ store'.access_token = runs[k].urlToken
        /\ store'.role = runs[k].urlRole
        /\ browserUrl'.token = None
        /\ browserUrl'.role = None

C5_ExtractStep ==
    (Len(runs') > Len(runs) /\ guard.loc.token # None) =>
      /\ store'.access_token = guard.loc.token
      /\ guard.loc.role # None => store'.role = guard.loc.role
      /\ browserUrl'.token = None
      /\ browserUrl'.role = None

C7_ChildrenOnlyAuthenticated ==
    View = "children" =>
      /\ ~guard.effectPending
      /\ \E k \in Bootstraps :
           /\ runs[k].inst = guard.inst
           /\ runs[k].render = guard.render
           /\ runs[k].state = "AUTHENTICATED"

\* C8: (every response so far being 200) in the step in which a run that
\* began with a stored token and no URL token has its GET /auth/me succeed,
\* the guard renders its children and no redirect to the login screen has
\* happened during the run.
C8_ClaimStep ==
    \A k \in Bootstraps :
      (/\ runs[k].state = "VALIDATING"
       /\ runs'[k].state = "AUTHENTICATED"
       /\ runs[k].hadToken
       /\ ~runs[k].extracted
       /\ \A i \in Requests : reqs'[i].last \in {NoStatus, 200}) =>
        /\ GuardView(variant, guard', auth') = "children"
        /\ ~runs'[k].redirected

\* C8 of every step: a valid stored token ends with the children rendered
\* and without a redirect to the login screen.
C8_ValidTokenNoRedirect == [][C8_ClaimStep]_vars

\* C11: for one mount of the guard and one firing cause (the mount, or one
\* route change) at most one execution of the effect body does the bootstrap
\* work: no two runs belong to the same instance and the same render.
C11_OncePerMount ==
    \A j, k \in Bootstraps :
      (runs[j].inst = runs[k].inst /\ runs[j].render = runs[k].render) => j = k

\* the step in which handleLogout resumes after its POST /auth/logout (request i)
LogoutAnswered(i) ==
    /\ reqs[i].handler # None
    /\ reqs[i].pc \in {"sent", "refreshing"}
    /\ reqs'[i].pc \in {"resolved", "rejected"}

\* C12: in the step in which POST /auth/logout is answered, whether it
\* succeeds or fails, the access token is removed from localStorage and the
\* router is at /login.
C12_ClaimStep ==
    \A i \in DOMAIN reqs :
      LogoutAnswered(i) =>
        /\ store'.access_token = None
        /\ routerLoc'.path = LoginPath

\* C12 of every step that answers a logout call.
C12_LogoutClearsEitherWay == [][C12_ClaimStep]_vars

\* C13: in the step in which handleLogout runs its clearing statements,
\* localStorage is left with access_token, refresh_token and role all absent.
C13_ClaimStep ==
    \A i \in DOMAIN reqs :
      (LogoutAnswered(i) /\ (reqs[i].handler = "dashTry" => reqs'[i].pc = "resolved")) =>
        store' = EmptyStore

\* C13 of every step that completes a logout.
C13_LogoutLeavesNothing == [][C13_ClaimStep]_vars

\* C14: in the step in which the effects of a LoginPage mounted with an
\* access token in localStorage run, the router goes to /dashboard and the
\* login action is not presented.
C14_ClaimStep ==
    (loginPc = "pending" /\ loginPc' # "pending" /\ store.access_token # None) =>
      /\ routerLoc'.path = LandingPath
      /\ loginPc' # "shown"

\* C14 of every step that runs the effects of a mounted LoginPage.
C14_LoginRedirectsWhenToken == [][C14_ClaimStep]_vars

\* C15: every step that takes the browser from a protected page to /login
\* (the guard finding no token or having its validation rejected, the
\* interceptor's refresh failing) replaces the current history entry: the
\* entry before the current one is the same before and after the step.
C15_ClaimStep ==
    (browserUrl.path \in Protected /\ browserUrl'.path = LoginPath) =>
      hist'.back = hist.back

\* C15 of every step of the application without user-made navigations to /login.
C15_RedirectReplacesHistory == [][C15_ClaimStep]_vars

\* the requests of the instance that a step sends: new ones and re-issued ones
SentNow(i) ==
    /\ reqs'[i].via = "api"
    /\ i \notin DOMAIN reqs \/ reqs'[i].sends > reqs[i].sends

\* C16: every request the instance sends, first issue or re-issue, carries
\* as its Authorization token exactly the access token localStorage holds at
\* that moment, and carries none when localStorage holds none.
C16_ClaimStep ==
    \A i \in DOMAIN reqs' : SentNow(i) => reqs'[i].header = store'.access_token

\* C16 of every step that sends a request through the instance.
C16_HeaderIsStoredToken == [][C16_ClaimStep]_vars

\* witness of C16: one request re-issued with the refreshed token as its
\* header, and another sent without a header while no token was stored
C16_Witness ==
    \E i, j \in Requests :
      /\ reqs[i].sends = 2
      /\ reqs[i].header = reqs[i].newTok
      /\ reqs[i].header # None
      /\ reqs[j].sends = 1
      /\ reqs[j].header = None
      /\ store.access_token = None

\* C17: in the step in which a request of the instance is answered with a
\* status other than 401, no refresh is started and the request is not
\* re-issued: it is fulfilled (200) or rejected with that response, no
\* navigation to /login is started, and when the caller does nothing on its
\* own (a page's data request) localStorage is unchanged.
C17_ClaimStep ==
    \A i \in Requests :
      (reqs'[i].answered = reqs[i].answered + 1 /\ reqs'[i].last # Unauthorized) =>
        /\ reqs'[i].refreshes = reqs[i].refreshes
        /\ reqs'[i].sends = reqs[i].sends
        /\ reqs'[i].pc = IF reqs'[i].last = 200 THEN "resolved" ELSE "rejected"
        /\ reqs'[i].pc = "rejected" => reqs'[i].err = "status"
        /\ navPending' = navPending
        /\ (reqs[i].owner = 0 /\ reqs[i].handler = None) => store' = store

\* C17 of every step that answers a request with a status other than 401.
C17_Non401PassesThrough == [][C17_ClaimStep]_vars

\* witness of C17: a page's data request answered 500 on its first send was
\* rejected with no refresh, and the stored token is still there
C17_Witness ==
    \E i \in Requests :
      /\ reqs[i].owner = 0
      /\ reqs[i].last = 500
      /\ reqs[i].pc = "rejected"
      /\ reqs[i].refreshes = 0
      /\ reqs[i].sends = 1
      /\ store.access_token # None
      /\ ~navPending

\* C18: in the step in which the GET /auth/me of a VALIDATING run fails (a
\* 401 on the re-issued request, a failed refresh, or any other error
\* status), the run ends UNAUTHENTICATED and localStorage is left with
\* access_token, refresh_token and role all absent.
C18_ClaimStep ==
    \A k \in Bootstraps :
      (/\ runs[k].state = "VALIDATING"
       /\ reqs[runs[k].req].pc \in {"sent", "refreshing"}
       /\ reqs'[runs[k].req].pc = "rejected") =>
        /\ runs'[k].state = "UNAUTHENTICATED"
        /\ store' = EmptyStore

\* C18 of every step that rejects the validation call of a run.
C18_FailedValidationClears == [][C18_ClaimStep]_vars

\* the step in which the refresh made for request i succeeds while request j
\* has also been answered 401
C19_SecondRefreshStep(i, j) ==
    /\ reqs[i].pc = "refreshing"
    /\ reqs'[i].pc = "sent"
    /\ reqs[j].first = Unauthorized

\* C19, the step: a refresh that succeeds while another request has also been
\* answered 401 re-issues its own request for the first and only time, leaves
\* the other request as it is, starts no teardown (no navigation, role kept)
\* and leaves in localStorage the token it returned, whatever the other
\* refresh wrote before.
C19_ClaimStep ==
    \A i \in Requests : \A j \in Requests \ {i} :
      C19_SecondRefreshStep(i, j) =>
        /\ reqs'[i].refreshes = 1
        /\ reqs'[i].sends = 2
        /\ reqs'[j] = reqs[j]
        /\ store'.access_token = reqs'[i].newTok
        /\ store'.access_token # None
        /\ store'.role = store.role
        /\ navPending' = navPending
        /\ routerLoc' = routerLoc

\* C19: two requests both answered 401 have one refresh each, and once both
\* refreshes have succeeded each has been sent exactly twice; every refresh
\* that succeeds overwrites the stored token with its own.
C19_IndependentRefreshes ==
    /\ [][C19_ClaimStep]_vars
    /\ [](\A i \in Requests : \A j \in Requests \ {i} :
            (reqs[i].first = Unauthorized /\ reqs[j].first = Unauthorized) =>
              /\ reqs[i].refreshes = 1 /\ reqs[j].refreshes = 1
              /\ (reqs[i].newTok # None /\ reqs[j].newTok # None) =>
                   reqs[i].sends = 2 /\ reqs[j].sends = 2)

\* witness of C19: both requests were refreshed with different tokens and both
\* re-issued requests succeeded; the token of the first request is the one
\* stored, so its refresh completed after the second request's
C19_Witness ==
    /\ Len(reqs) = 2
    /\ reqs[1].newTok # None /\ reqs[2].newTok # None
    /\ reqs[1].newTok # reqs[2].newTok
    /\ reqs[1].pc = "resolved" /\ reqs[2].pc = "resolved"
    /\ reqs[1].sends = 2 /\ reqs[2].sends = 2
    /\ store.access_token = reqs[1].newTok
    /\ ~navPending

Terminal == {"AUTHENTICATED", "UNAUTHENTICATED"}

\* the behaviour is cut here by MaxRuns and MaxReqs: the LoginPage would go to
\* /dashboard and mount the guard again
BoundReached ==
    loginPc = "pending" /\ variant = "redux" /\ LoginRedirects(auth, store) /\ ~Room(1)

\* the network calls made for run k: GET /auth/me as often as it was sent,
\* plus the POST /auth/refresh made for it
NetworkCalls(k) ==
    IF runs[k].req = 0 THEN 0
    ELSE reqs[runs[k].req].sends + reqs[runs[k].req].refreshes

\* C20, the steps: a run starts VALIDATING or, without a token, ends at once
\* UNAUTHENTICATED; it becomes AUTHENTICATED only out of VALIDATING, and a
\* terminal state is never left.
C20_ClaimStep ==
    \A k \in DOMAIN runs' :
      IF k \in DOMAIN runs
      THEN /\ runs[k].state \in Terminal => runs'[k].state = runs[k].state
           /\ runs'[k].state \in Terminal => runs[k].state \in Terminal \cup {"VALIDATING"}
      ELSE runs'[k].state \in {"VALIDATING", "UNAUTHENTICATED"}

\* C20: a run takes the token from the URL before it validates (its GET
\* /auth/me is first sent with the URL's token), makes at most three network
\* calls, and, every request being answered unless the document is unloaded
\* first, a VALIDATING run eventually ends AUTHENTICATED or UNAUTHENTICATED
\* (within the runs and requests the bounds allow);
\* the guard does not show its loading view forever.
C20_BootstrapTerminates ==
    /\ [][C20_ClaimStep]_vars
    /\ [](\A k \in Bootstraps :
            /\ NetworkCalls(k) <= 3
            /\ (runs[k].extracted /\ runs[k].req # 0 /\ reqs[runs[k].req].sends = 1) =>
                 reqs[runs[k].req].header = runs[k].urlToken)
    /\ \A k \in 1..MaxRuns :
         (k \in Bootstraps /\ runs[k].state = "VALIDATING")
           ~> \/ k \in Bootstraps /\ (\/ runs[k].state \in Terminal
                                      \/ reqs[runs[k].req].pc = "aborted")
              \/ BoundReached
    /\ (View = "loading") ~> (View # "loading")

\* witness of C20: a run that took its token from the URL ended after exactly
\* three network calls
C20_Witness ==
    \E k \in Bootstraps :
      /\ runs[k].extracted
      /\ runs[k].state \in Terminal
      /\ NetworkCalls(k) = 3
      /\ reqs[runs[k].req].first = Unauthorized
      /\ reqs[runs[k].req].answered = 2

\* C21: in the step that runs the guard's effect, a URL with access_token
\* and no role leaves the stored role and refresh_token as they were and
\* stores that access_token; a URL with no access_token, with or without a
\* role, leaves localStorage as it was.
C21_ClaimStep ==
    Len(runs') > Len(runs) =>
      /\ (guard.loc.token # None /\ guard.loc.role = None) =>
           /\ store'.access_token = guard.loc.token
           /\ store'.role = store.role
           /\ store'.refresh_token = store.refresh_token
      /\ guard.loc.token = None => store' = store

\* C21 of every step that runs the URL extraction.
C21_OnlyProvidedFieldsWritten == [][C21_ClaimStep]_vars

\* witness of C21: a run took a token from a URL that had no role, and the
\* role stored before is still there beside the new token
C21_Witness ==
    \E k \in Bootstraps :
      /\ runs[k].extracted
      /\ runs[k].urlRole = None
      /\ runs[k].state = "VALIDATING"
      /\ store.access_token = runs[k].urlToken
      /\ store.role \in StoredRoles

\* localStorage as it is read when the role is taken to be absent
WithoutRole(st) == [st EXCEPT !.role = None]

LogoutCleared(i) ==
    /\ reqs[i].handler # None
    /\ \/ reqs[i].pc = "resolved"
       \/ reqs[i].pc = "rejected" /\ reqs[i].handler # "dashTry"

\* the guard stores the token of the OAuth callback URL in this step
LoginCallbackStep ==
    /\ Len(runs') > Len(runs)
    /\ guard.loc.token # None

\* C26: once a logout has removed the access token, localStorage holds no
\* access token again before the guard stores the token of the next login
\* callback, also when a request or a refresh that was in flight at the logout
\* completes afterwards.
C26_ClaimStep ==
    ((\E i \in Logouts : LogoutCleared(i)) /\ store.access_token = None
       /\ store'.access_token # None)
      => LoginCallbackStep

\* C26 of every step after a logout.
C26_NoTokenAfterLogout == [][C26_ClaimStep]_vars


\* C27: in the Redux form, whenever the auth slice says isAuthenticated with
\* loading false, localStorage holds an access token.
C27_AuthenticatedHasToken ==
    (variant = "redux" /\ auth.isAuthenticated /\ ~auth.loading)
      => store.access_token # None


\* guard run k of the mounted guard stored the URL token and its refresh has
\* since replaced it: localStorage holds the refreshed token
RefreshReplaced(k) ==
    /\ guard.mounted
    /\ runs[k].inst = guard.inst
    /\ runs[k].extracted
    /\ runs[k].req # 0
    /\ reqs[runs[k].req].newTok # None
    /\ store.access_token = reqs[runs[k].req].newTok

\* C25: once a refresh of the guard's bootstrap has replaced the URL token T
\* in localStorage, no step of the same page (the Dashboard's bootstrap
\* included) writes T back.
C25_ClaimStep ==
    \A k \in Bootstraps :
      RefreshReplaced(k) => store'.access_token # runs[k].urlToken

\* C25 of every step.
C25_NoStaleUrlToken == [][C25_ClaimStep]_vars


\* the server has rejected the stored token: a validation of the last guard
\* instance was rejected, none was accepted and no refresh gave a new token
TokenRejected ==
    /\ \A i \in DOMAIN reqs : reqs[i].newTok = None
    /\ \E k \in Bootstraps :
         /\ runs[k].inst = guard.inst
         /\ runs[k].req # 0
         /\ reqs[runs[k].req].pc = "rejected"
    /\ \A k \in Bootstraps :
         runs[k].inst = guard.inst => runs[k].state # "AUTHENTICATED"

\* C24: when the LoginPage runs its effects after the guard's validation was
\* rejected, the access token has been removed and the LoginPage stays on
\* /login showing the login action: it does not send the user back.
C24_ClaimStep ==
    (loginPc = "pending" /\ loginPc' # "pending" /\ TokenRejected) =>
      /\ store.access_token = None
      /\ routerLoc'.path = LoginPath
      /\ loginPc' = "shown"

\* C24 of every step in which the LoginPage's effects run.
C24_SettlesOnLogin == [][C24_ClaimStep]_vars


\* thunk n settles in this step with the given outcome
Settles(n, outcome) ==
    /\ thunks[n].status = "pending"
    /\ thunks'[n].status = outcome

\* the thunks that change the appointment list on the server
Writes == {"create", "update", "delete"}

\* C23: the appointment list changes only with a successful response. The
\* dispatch (pending) and the rejection of a create, update or delete leave
\* the list as it is, and a rejection records the error and clears loading; a
\* fulfilled delete leaves exactly the entries whose id is not the deleted
\* one; a fulfilled update leaves every entry with another id as it is, and
\* the whole list when no entry has that id.
C23_ClaimStep ==
    /\ (\E n \in DOMAIN thunks' \ DOMAIN thunks : thunks'[n].type \in Writes)
         => appointment'.items = appointment.items
    /\ \A n \in DOMAIN thunks :
         /\ (thunks[n].type \in Writes /\ Settles(n, "rejected")) =>
              /\ appointment'.items = appointment.items
              /\ appointment'.error # None
              /\ ~appointment'.loading
         /\ (thunks[n].type = "delete" /\ Settles(n, "fulfilled")) =>
              appointment'.items =
                SelectSeq(appointment.items, LAMBDA a : a.id # thunks[n].id)
         /\ (thunks[n].type = "update" /\ Settles(n, "fulfilled")) =>
              /\ Len(appointment'.items) = Len(appointment.items)
              /\ \A j \in DOMAIN appointment.items :
                   appointment.items[j].id # thunks[n].id
                     => appointment'.items[j] = appointment.items[j]

\* C23 of every step of the appointment page.
C23_ListFollowsServer == [][C23_ClaimStep]_vars

\* witness of C23: a delete was fulfilled and took its entry out of a list
\* that keeps another entry, and a later update for the deleted id was
\* fulfilled with no entry of that id
C23_Witness ==
    \E n, m \in DOMAIN thunks :
      /\ thunks[n].type = "delete" /\ thunks[n].status = "fulfilled"
      /\ thunks[m].type = "update" /\ thunks[m].status = "fulfilled"
      /\ thunks[m].id = thunks[n].id
      /\ n < m
      /\ Len(appointment.items) = 1
      /\ appointment.items[1].id # thunks[n].id

\* C28: while a create or update request is pending the slice's loading flag
\* is true (the submit button is disabled), also after other requests of the
\* slice have settled.
C28_PendingSaveKeepsLoading ==
    (\E n \in DOMAIN thunks :
       thunks[n].type \in {"create", "update"} /\ thunks[n].status = "pending")
      => appointment.loading

\* every available-slot request has been fulfilled and a doctor and a date
\* are selected
SlotsSettled ==
    /\ \E n \in DOMAIN thunks : thunks[n].type = "fetchSlots"
    /\ \A n \in DOMAIN thunks :
         thunks[n].type = "fetchSlots" => thunks[n].status = "fulfilled"
    /\ appointment.form.doctor_id # Unset
    /\ appointment.form.date # Unset

\* C29: once every available-slot request has been fulfilled, availableSlots
\* holds the slots of the doctor and date selected in the form.
C29_SlotsOfCurrentSelection ==
    SlotsSettled =>
      appointment.availableSlots =
        SlotsFor(appointment.form.doctor_id, appointment.form.date)

====
